---------------------------- MODULE Spec2Model ----------------------------
(***************************************************************************)
(* SimpleGC (src/SimpleGC/gc.cpp): a conservative mark/sweep collector.    *)
(*                                                                         *)
(* The model is the collector on a small machine: memory is an array of    *)
(* bytes, a pointer and a size_t are PtrSize bytes wide (arithmetic on     *)
(* them is modulo WordMod), the underlying allocator (calloc/free) manages *)
(* an arena of NumSlots granules and may place a block at any free         *)
(* granule.  The program that uses the collector (the mutator) is a set of *)
(* actions that store words in registers, on the stack, in the data        *)
(* segment and in the blocks it was given.                                 *)
(***************************************************************************)
EXTENDS Integers, Sequences, FiniteSets, TLC

(***************************************************************************)
(* Bounds of the model.                                                    *)
(***************************************************************************)
\* bytes in a pointer / size_t (sizeof(void *), 8 in the source's build)
PtrSize == 2
\* granules of PtrSize bytes in the arena the underlying allocator manages
NumSlots == 3
\* words in the stack region the platform reports
StackWords == 2
\* words in the __DATA segment
DataWords == 1
\* registers the mutator keeps pointers in (the others hold 0)
MutRegs == 1
\* non-zero words the mutator keeps at any one time
MaxPtrs == 1
\* non-zero words of a drawn heap
MaxRefs == 3
\* stores a second thread makes while a collection marks
MaxStores == 2

(***************************************************************************)
(* Program constants.                                                      *)
(***************************************************************************)
\* calloc(sizeof(void *), 15): slots of the register scratch buffer
RegBufWords == 15
\* registers get_registers copies (rax .. r15 without rsp, rbp)
NumRegs == 14
\* the byte memset writes over a reclaimed block (0xab)
Sentinel == 171

NULL == 0
ByteMod == 2 ^ 8
WordMod == ByteMod ^ PtrSize

(***************************************************************************)
(* The address map.                                                        *)
(***************************************************************************)
HeapBase == ByteMod * PtrSize
HeapBytes == NumSlots * PtrSize
HeapAddrs == HeapBase .. (HeapBase + HeapBytes - 1)
GranuleAddrs == {HeapBase + k * PtrSize : k \in 0 .. (NumSlots - 1)}

StackRegionBase == HeapBase + HeapBytes + PtrSize
StackRegionBytes == StackWords * PtrSize
StackTop == StackRegionBase + StackRegionBytes
StackAddrs == StackRegionBase .. (StackTop - 1)

DataSegBase == StackTop + PtrSize
DataSegBytes == DataWords * PtrSize
DataAddrs == DataSegBase .. (DataSegBase + DataSegBytes - 1)

\* the scratch buffer of gc_collect: calloc'ed and freed within the call; it
\* is taken to be served from memory of its own, outside the arena
RegBufBase == DataSegBase + DataSegBytes + PtrSize
RegBufAddrs == RegBufBase .. (RegBufBase + RegBufWords * PtrSize - 1)

MemAddrs == HeapAddrs \cup StackAddrs \cup DataAddrs

(***************************************************************************)
(* Inputs.                                                                 *)
(***************************************************************************)
\* sizes passed to gc_alloc: a word, two words, and the largest size_t
Sizes == {PtrSize, 2 * PtrSize, WordMod - 1}
\* sizes of the blocks of a drawn heap: less than a word, a word, a word and
\* a part of a word
BlockSizes == {1, PtrSize, 2 * PtrSize - 1}
\* values passed to gc_debug_set_max_heap (0: no cap)
Caps == {0, 2 * PtrSize}
\* results of mach_vm_region (0: KERN_SUCCESS)
KernReturns == {0, 1}
\* words the mutator stores: 0 or the address of a block
Vals == {NULL} \cup GranuleAddrs
\* words of a drawn heap: also the address of a block + 1
DrawnVals == Vals \cup {a + 1 : a \in GranuleAddrs}

EmptyMap == [x \in {} |-> 0]

VARIABLES
  mem,                        \* the bytes of heap arena, stack region, __DATA
  regs,                       \* the general purpose registers
  sp,                         \* the stack pointer (rsp)
  chunks,                     \* the underlying allocator: live block -> size
  allocations,                \* static heapmap *allocations
  current_allocated,          \* static size_t current_allocated
  max_heap_size,              \* static size_t max_heap_size
  verbose_logging,            \* static bool verbose_logging
  overwrite_reclaimed_blocks, \* static bool overwrite_reclaimed_blocks
  gc_initialized,             \* static bool gc_initialized (in gc_init)
  stack_start,                \* static void **stack_start
  stack_length,               \* static mach_vm_size_t stack_length
  data_segment_start,         \* static void **data_segment_start
  data_segment_length,        \* static mach_vm_size_t data_segment_length
  exited,                     \* the process has called exit(1)
  last,                       \* the call just made: what it did and returned
  collector                   \* the position of a gc_collect in progress

vars == <<mem, regs, sp, chunks, allocations, current_allocated, max_heap_size,
          verbose_logging, overwrite_reclaimed_blocks, gc_initialized,
          stack_start, stack_length, data_segment_start, data_segment_length,
          exited, last, collector>>

\* what a call reports: its name, its argument, the pointer it returned and
\* the allocation attempts and collections it made, in order
NoCall == [op |-> "none", size |-> 0, ptr |-> NULL, events |-> <<>>]

\* no gc_collect in progress.  Of a gc_collect in progress: pc is the step
\* it is at, marked its mark set, frames the activations of
\* gc_collect_scan_block (innermost first), pending the entries the sweep
\* loop has still to visit, total_swept its local total
Idle == [pc |-> "idle", marked |-> [x \in {} |-> 0], frames |-> <<>>,
         pending |-> {}, total_swept |-> 0]

\* the process state as one value, with the report of the call in progress,
\* the blocks it has passed to free and whether debug_printf has written
Cur == [mem |-> mem, regs |-> regs, sp |-> sp, chunks |-> chunks,
        allocations |-> allocations, current_allocated |-> current_allocated,
        max_heap_size |-> max_heap_size, verbose_logging |-> verbose_logging,
        overwrite_reclaimed_blocks |-> overwrite_reclaimed_blocks,
        gc_initialized |-> gc_initialized, stack_start |-> stack_start,
        stack_length |-> stack_length,
        data_segment_start |-> data_segment_start,
        data_segment_length |-> data_segment_length,
        exited |-> exited, last |-> NoCall, freed |-> {}, printed |-> FALSE]

Commit(st) ==
  /\ mem' = st.mem
  /\ regs' = st.regs
  /\ sp' = st.sp
  /\ chunks' = st.chunks
  /\ allocations' = st.allocations
  /\ current_allocated' = st.current_allocated
  /\ max_heap_size' = st.max_heap_size
  /\ verbose_logging' = st.verbose_logging
  /\ overwrite_reclaimed_blocks' = st.overwrite_reclaimed_blocks
  /\ gc_initialized' = st.gc_initialized
  /\ stack_start' = st.stack_start
  /\ stack_length' = st.stack_length
  /\ data_segment_start' = st.data_segment_start
  /\ data_segment_length' = st.data_segment_length
  /\ exited' = st.exited
  /\ last' = st.last
  /\ collector' = collector

Extent(a, n) == a .. (a + n - 1)

(***************************************************************************)
(* Memory: bytes, and the little-endian words the scanner reads.           *)
(***************************************************************************)
\* byte i of the word w
ByteOf(w, i) == (w \div (ByteMod ^ i)) % ByteMod

\* the scratch buffer after get_registers: 14 registers and a zero slot
registers(st) == [k \in 0 .. (RegBufWords - 1) |->
                    IF k < NumRegs THEN st.regs[k] ELSE 0]

ByteAt(st, a) ==
  IF a \in RegBufAddrs
  THEN ByteOf(registers(st)[(a - RegBufBase) \div PtrSize],
              (a - RegBufBase) % PtrSize)
  ELSE st.mem[a]

RECURSIVE LoadBytes(_, _, _)
LoadBytes(st, p, n) ==
  IF n = 0 THEN 0 ELSE ByteAt(st, p) + ByteMod * LoadBytes(st, p + 1, n - 1)

\* *p for a void **p
WordAt(st, p) == LoadBytes(st, p, PtrSize)

\* *(void **)p = v
StoreWord(m, p, v) ==
  [a \in DOMAIN m |-> IF a \in Extent(p, PtrSize) THEN ByteOf(v, a - p) ELSE m[a]]

(***************************************************************************)
(* The underlying allocator.                                               *)
(***************************************************************************)
\* the bytes the allocator sets aside for a request: whole granules
ChunkBytes(size) ==
  IF size = 0 THEN PtrSize ELSE ((size + PtrSize - 1) \div PtrSize) * PtrSize

FreeAt(ch, a, size) ==
  /\ Extent(a, ChunkBytes(size)) \subseteq HeapAddrs
  /\ \A c \in DOMAIN ch :
       Extent(c, ChunkBytes(ch[c])) \cap Extent(a, ChunkBytes(size)) = {}

\* what calloc(1, size) may return: any free place, NULL when there is none
CallocResults(ch, size) ==
  LET fits == {a \in GranuleAddrs : FreeAt(ch, a, size)}
  IN IF fits = {} THEN {NULL} ELSE fits

\* a variant of calloc that leaves the bytes as they are, as malloc does
calloc_dirty(st, size, a) ==
  IF a = NULL THEN st ELSE [st EXCEPT !.chunks = (a :> size) @@ @]

\* calloc(1, size) returning a: the block is live and its size bytes are zero
calloc(st, size, a) ==
  IF a = NULL THEN st
  ELSE [st EXCEPT !.chunks = (a :> size) @@ @,
                  !.mem = [x \in DOMAIN @ |->
                             IF x \in Extent(a, size) THEN 0 ELSE @[x]]]

\* free(b) for each b of bs
free(st, bs) ==
  [st EXCEPT !.chunks = [c \in DOMAIN @ \ bs |-> @[c]],
             !.freed = @ \cup bs]

\* memset(b, 0xab, size of b) for each b of bs
memset(st, bs) ==
  [st EXCEPT !.mem = [x \in DOMAIN @ |->
      IF \E b \in bs : x \in Extent(b, st.allocations[b]) THEN Sentinel ELSE @[x]]]

(***************************************************************************)
(* gc.cpp                                                                  *)
(***************************************************************************)
Log(st, e) == [st EXCEPT !.last.events = Append(@, e)]

debug_printf(st) ==
  IF ~st.verbose_logging THEN st ELSE [st EXCEPT !.printed = TRUE]

get_stack_pointer(st) == st.sp

\* a variant of gc_init without the test of gc_initialized
gc_init_always(st, kr) ==
  IF kr # 0
  THEN [st EXCEPT !.gc_initialized = TRUE, !.exited = TRUE]
  ELSE debug_printf([st EXCEPT !.gc_initialized = TRUE,
                               !.stack_start = StackRegionBase,
                               !.stack_length = StackRegionBytes,
                               !.data_segment_start = DataSegBase,
                               !.data_segment_length = DataSegBytes,
                               !.allocations = EmptyMap])

gc_init(st, kr) ==
  IF st.gc_initialized THEN st
  ELSE IF kr # 0
       THEN [st EXCEPT !.gc_initialized = TRUE, !.exited = TRUE]
       ELSE debug_printf([st EXCEPT !.gc_initialized = TRUE,
                                    !.stack_start = StackRegionBase,
                                    !.stack_length = StackRegionBytes,
                                    !.data_segment_start = DataSegBase,
                                    !.data_segment_length = DataSegBytes,
                                    !.allocations = EmptyMap])

\* a variant of internal_alloc that compares the total alone with the cap
internal_alloc_total(st, size, a) ==
  IF st.max_heap_size > 0 /\ st.current_allocated > st.max_heap_size
  THEN [ptr |-> NULL, st |-> Log(st, "denied")]
  ELSE [ptr |-> a,
        st |-> calloc(Log(st, IF a = NULL THEN "calloc_null" ELSE "calloc_ok"),
                      size, a)]

\* a variant of internal_alloc that calls calloc before it looks at the cap
internal_alloc_late(st, size, a) ==
  LET s1 == calloc(Log(st, IF a = NULL THEN "calloc_null" ELSE "calloc_ok"),
                   size, a)
  IN IF st.max_heap_size > 0
        /\ (st.current_allocated + size) % WordMod > st.max_heap_size
     THEN [ptr |-> NULL, st |-> Log(free(s1, {a} \ {NULL}), "denied")]
     ELSE [ptr |-> a, st |-> s1]

internal_alloc(st, size, a) ==
  IF st.max_heap_size > 0
     /\ (st.current_allocated + size) % WordMod > st.max_heap_size
  THEN [ptr |-> NULL, st |-> Log(st, "denied")]
  ELSE [ptr |-> a,
        st |-> calloc(Log(st, IF a = NULL THEN "calloc_null" ELSE "calloc_ok"),
                      size, a)]

RECURSIVE gc_collect_scan_block(_, _, _, _)
RECURSIVE ScanWords(_, _, _, _)

\* a variant of the loop that marks the blocks it finds and does not scan them
RECURSIVE ScanWords_flat(_, _, _, _)
ScanWords_flat(st, p, end, marked) ==
  IF ~(p < end) THEN marked
  ELSE LET v == WordAt(st, p)
           m == IF v \in DOMAIN st.allocations /\ v \notin DOMAIN marked
                THEN (v :> st.allocations[v]) @@ marked
                ELSE marked
       IN ScanWords_flat(st, p + PtrSize, end, m)

\* the for loop of gc_collect_scan_block, from p
ScanWords(st, p, end, marked) ==
  IF ~(p < end) THEN marked
  ELSE LET v == WordAt(st, p)
           m == IF v \in DOMAIN st.allocations /\ v \notin DOMAIN marked
                THEN gc_collect_scan_block(st, v, st.allocations[v],
                                           (v :> st.allocations[v]) @@ marked)
                ELSE marked
       IN ScanWords(st, p + PtrSize, end, m)

gc_collect_scan_block(st, start, length, marked) ==
  ScanWords(st, start, start + length, marked)

\* the mark phase of gc_collect: registers, stack in use, data segment
Mark(st) ==
  LET m1 == gc_collect_scan_block(st, RegBufBase, PtrSize * RegBufWords, EmptyMap)
      curr_stack == get_stack_pointer(st)
      m2 == gc_collect_scan_block(st, curr_stack,
              (st.stack_start + st.stack_length - curr_stack) % WordMod, m1)
  IN gc_collect_scan_block(st, st.data_segment_start, st.data_segment_length, m2)

RECURSIVE SumSizes(_, _)
SumSizes(f, S) ==
  IF S = {} THEN 0
  ELSE LET b == CHOOSE x \in S : TRUE IN f[b] + SumSizes(f, S \ {b})

\* a variant of the sweep with the test inverted: it releases the marked blocks
Sweep_marked(st, marked) ==
  LET hit == {b \in DOMAIN st.allocations : b \in DOMAIN marked}
      total_swept == SumSizes(st.allocations, hit) % WordMod
      s1 == IF st.overwrite_reclaimed_blocks THEN memset(st, hit) ELSE st
      s2 == free(s1, hit)
  IN [s2 EXCEPT !.current_allocated = (@ - total_swept) % WordMod,
                !.allocations = marked]

\* a variant of the sweep that releases a block only when it overwrites it
Sweep_flagged(st, marked) ==
  LET unmarked == {b \in DOMAIN st.allocations : b \notin DOMAIN marked}
      hit == IF st.overwrite_reclaimed_blocks THEN unmarked ELSE {}
      total_swept == SumSizes(st.allocations, hit) % WordMod
      s2 == free(memset(st, hit), hit)
  IN [s2 EXCEPT !.current_allocated = (@ - total_swept) % WordMod,
                !.allocations = marked]

\* a sweep that leaves the total as it was
Sweep_uncounted(st, marked) ==
  LET unmarked == {b \in DOMAIN st.allocations : b \notin DOMAIN marked}
      s1 == IF st.overwrite_reclaimed_blocks THEN memset(st, unmarked) ELSE st
      s2 == free(s1, unmarked)
  IN [s2 EXCEPT !.allocations = marked]

\* a sweep that drops the unmarked entries without releasing their blocks
Sweep_leak(st, marked) ==
  LET unmarked == {b \in DOMAIN st.allocations : b \notin DOMAIN marked}
      total_swept == SumSizes(st.allocations, unmarked) % WordMod
      s1 == IF st.overwrite_reclaimed_blocks THEN memset(st, unmarked) ELSE st
  IN [s1 EXCEPT !.current_allocated = (@ - total_swept) % WordMod,
                !.allocations = marked]

\* a sweep that releases the unmarked blocks and keeps the old table
Sweep_stale(st, marked) ==
  LET unmarked == {b \in DOMAIN st.allocations : b \notin DOMAIN marked}
      total_swept == SumSizes(st.allocations, unmarked) % WordMod
      s1 == IF st.overwrite_reclaimed_blocks THEN memset(st, unmarked) ELSE st
      s2 == free(s1, unmarked)
  IN [s2 EXCEPT !.current_allocated = (@ - total_swept) % WordMod]

\* the sweep of gc_collect
Sweep(st, marked) ==
  LET unmarked == {b \in DOMAIN st.allocations : b \notin DOMAIN marked}
      total_swept == SumSizes(st.allocations, unmarked) % WordMod
      s1 == IF st.overwrite_reclaimed_blocks THEN memset(st, unmarked) ELSE st
      s2 == free(s1, unmarked)
  IN [s2 EXCEPT !.current_allocated = (@ - total_swept) % WordMod,
                !.allocations = marked]

gc_collect(st, kr) ==
  LET s0 == gc_init(st, kr)
  IN IF s0.exited THEN s0
     ELSE LET s1 == debug_printf(Log(s0, "gc_collect"))
          IN Sweep(s1, Mark(s1))

\* a variant of gc_alloc that collects and gives up without a second attempt
gc_alloc_once(st, size, kr, a1, a2) ==
  LET s0 == gc_init(st, kr)
  IN IF s0.exited THEN s0
     ELSE LET r1 == internal_alloc(s0, size, a1)
          IN IF r1.ptr # NULL
             THEN [r1.st EXCEPT !.allocations = (r1.ptr :> size) @@ @,
                                !.current_allocated = (@ + size) % WordMod,
                                !.last.ptr = r1.ptr]
             ELSE gc_collect(r1.st, kr)

\* a variant of gc_alloc that adds the size to the total whatever the result
gc_alloc_counts(st, size, kr, a1, a2) ==
  LET s0 == gc_init(st, kr)
  IN IF s0.exited THEN s0
     ELSE LET r1 == internal_alloc(s0, size, a1)
              r == IF r1.ptr # NULL THEN r1
                   ELSE internal_alloc(gc_collect(r1.st, kr), size, a2)
              s1 == [r.st EXCEPT !.current_allocated = (@ + size) % WordMod]
          IN IF r.ptr # NULL
             THEN [s1 EXCEPT !.allocations = (r.ptr :> size) @@ @,
                             !.last.ptr = r.ptr]
             ELSE s1

\* a variant of gc_alloc that records the result without testing it
gc_alloc_unchecked(st, size, kr, a1, a2) ==
  LET s0 == gc_init(st, kr)
  IN IF s0.exited THEN s0
     ELSE LET r1 == internal_alloc(s0, size, a1)
              r == IF r1.ptr # NULL THEN r1
                   ELSE internal_alloc(gc_collect(r1.st, kr), size, a2)
          IN [r.st EXCEPT !.allocations = (r.ptr :> size) @@ @,
                          !.current_allocated = (@ + size) % WordMod,
                          !.last.ptr = r.ptr]

\* a variant of gc_alloc that collects before every first attempt
gc_alloc_eager(st, size, kr, a1, a2) ==
  LET s0 == gc_init(st, kr)
  IN IF s0.exited THEN s0
     ELSE LET r1 == internal_alloc(gc_collect(s0, kr), size, a1)
              r == IF r1.ptr # NULL THEN r1
                   ELSE internal_alloc(gc_collect(r1.st, kr), size, a2)
          IN IF r.ptr # NULL
             THEN [r.st EXCEPT !.allocations = (r.ptr :> size) @@ @,
                               !.current_allocated = (@ + size) % WordMod,
                               !.last.ptr = r.ptr]
             ELSE r.st

gc_alloc(st, size, kr, a1, a2) ==
  LET s0 == gc_init(st, kr)
  IN IF s0.exited THEN s0
     ELSE LET r1 == internal_alloc(s0, size, a1)
              r == IF r1.ptr # NULL THEN r1
                   ELSE internal_alloc(gc_collect(r1.st, kr), size, a2)
          IN IF r.ptr # NULL
             THEN [r.st EXCEPT !.allocations = (r.ptr :> size) @@ @,
                               !.current_allocated = (@ + size) % WordMod,
                               !.last.ptr = r.ptr]
             ELSE r.st

gc_debug_set_max_heap(st, size) == [st EXCEPT !.max_heap_size = size]

gc_debug_enable_verbose_logging(st, flag) == [st EXCEPT !.verbose_logging = flag]

gc_debug_overwrite_reclaimed_blocks(st, flag) ==
  [st EXCEPT !.overwrite_reclaimed_blocks = flag]

(***************************************************************************)
(* The calls of the public interface.                                      *)
(***************************************************************************)
Call(op, size) == [Cur EXCEPT !.last.op = op, !.last.size = size]

\* mach_vm_region is called by the first gc_init only
KernResults(st) == IF st.gc_initialized THEN {0} ELSE KernReturns

GcAlloc(size) ==
  /\ ~exited
  /\ \E kr \in KernResults(Cur) :
       LET s0 == gc_init(Call("gc_alloc", size), kr)
       IN \E a1 \in CallocResults(s0.chunks, size) :
            LET r1 == internal_alloc(s0, size, a1)
            IN \E a2 \in (IF s0.exited \/ r1.ptr # NULL THEN {NULL}
                         ELSE CallocResults(gc_collect(r1.st, kr).chunks, size)) :
                 Commit(gc_alloc(Call("gc_alloc", size), size, kr, a1, a2))

GcCollect ==
  /\ ~exited
  /\ \E kr \in KernResults(Cur) : Commit(gc_collect(Call("gc_collect", 0), kr))

GcDebugSetMaxHeap(size) ==
  /\ ~exited
  /\ Commit(gc_debug_set_max_heap(Cur, size))

GcDebugEnableVerboseLogging(flag) ==
  /\ ~exited
  /\ Commit(gc_debug_enable_verbose_logging(Cur, flag))

GcDebugOverwriteReclaimedBlocks(flag) ==
  /\ ~exited
  /\ Commit(gc_debug_overwrite_reclaimed_blocks(Cur, flag))

(***************************************************************************)
(* The mutator.                                                            *)
(***************************************************************************)
\* the addresses of the whole words inside the blocks the collector tracks
BlockWordAddrs(st) ==
  UNION {{b + k * PtrSize : k \in 0 .. ((st.allocations[b] \div PtrSize) - 1)} :
           b \in DOMAIN st.allocations}

StackWordAddrs == {StackRegionBase + k * PtrSize : k \in 0 .. (StackWords - 1)}
DataWordAddrs == {DataSegBase + k * PtrSize : k \in 0 .. (DataWords - 1)}
RootWordAddrs == StackWordAddrs \cup DataWordAddrs

\* the non-zero words the mutator holds
PtrCount(st) ==
  Cardinality({r \in 0 .. (NumRegs - 1) : st.regs[r] # 0})
    + Cardinality({p \in RootWordAddrs \cup BlockWordAddrs(st) : WordAt(st, p) # 0})

Mutate(st) ==
  /\ ~exited
  /\ PtrCount(st) <= MaxPtrs
  /\ Commit(st)

\* mov v, %reg
SetRegister(r, v) == Mutate([Cur EXCEPT !.regs[r] = v])

\* push v (a call, a new local)
Push(v) ==
  /\ sp > StackRegionBase
  /\ Mutate([Cur EXCEPT !.sp = sp - PtrSize, !.mem = StoreWord(@, sp - PtrSize, v)])

\* pop (a return): the word stays where it was, below the stack pointer
Pop ==
  /\ sp < StackTop - PtrSize
  /\ Mutate([Cur EXCEPT !.sp = sp + PtrSize])

\* a global variable = v
StoreData(p, v) == Mutate([Cur EXCEPT !.mem = StoreWord(@, p, v)])

Init ==
  /\ mem = [a \in MemAddrs |-> 0]
  /\ regs = [r \in 0 .. (NumRegs - 1) |-> 0]
  /\ sp = StackTop - PtrSize
  /\ chunks = EmptyMap
  /\ allocations = EmptyMap
  /\ current_allocated = 0
  /\ max_heap_size = 0
  /\ verbose_logging = FALSE
  /\ overwrite_reclaimed_blocks = FALSE
  /\ gc_initialized = FALSE
  /\ stack_start = 0
  /\ stack_length = 0
  /\ data_segment_start = 0
  /\ data_segment_length = 0
  /\ exited = FALSE
  /\ last = NoCall
  /\ collector = Idle

Next ==
  \/ \E size \in Sizes : GcAlloc(size)
  \/ GcCollect
  \/ \E size \in Caps : GcDebugSetMaxHeap(size)
  \/ \E flag \in BOOLEAN : GcDebugEnableVerboseLogging(flag)
  \/ \E flag \in BOOLEAN : GcDebugOverwriteReclaimedBlocks(flag)
  \/ \E r \in 0 .. (MutRegs - 1), v \in Vals : SetRegister(r, v)
  \/ \E v \in Vals : Push(v)
  \/ Pop
  \/ \E p \in DataWordAddrs, v \in Vals : StoreData(p, v)

Spec == Init /\ [][Next]_vars

(***************************************************************************)
(* The collector applied to drawn heaps: HeapInit draws the allocation     *)
(* table, the words of the roots and the words of the blocks (the blocks   *)
(* hold addresses of blocks), and HeapNext makes one call.                 *)
(***************************************************************************)
\* the allocation tables: blocks of BlockSizes that fill the arena
Tables ==
  {t \in UNION {[S -> BlockSizes] : S \in SUBSET GranuleAddrs} :
     /\ \A a \in DOMAIN t : FreeAt([c \in DOMAIN t \ {a} |-> t[c]], a, t[a])
     /\ \A a \in GranuleAddrs : ~FreeAt(t, a, 1)}

RegWordAddrs == {RegBufBase + r * PtrSize : r \in 0 .. (MutRegs - 1)}

\* the places in the blocks of t where the program may have stored a value:
\* each whole word, and the bytes after the last whole word
StoredWordAddrs(t) ==
  UNION {{b + k * PtrSize : k \in 0 .. (((t[b] + PtrSize - 1) \div PtrSize) - 1)} :
           b \in DOMAIN t}

\* the words a drawn heap may hold a value in: the registers, the stack in
\* use, the data segment and the blocks
DrawnWordAddrs(t) ==
  RegWordAddrs \cup {p \in StackWordAddrs : p >= StackTop - PtrSize}
    \cup DataWordAddrs \cup StoredWordAddrs(t)

\* at most MaxRefs words hold a value, the others 0; a block holds addresses
\* of blocks (an address fits in the low byte, so the bytes after the last
\* whole word of a block hold its low part and the padding holds 0)
DrawnWords(t) ==
  UNION {{f \in [S -> DrawnVals \ {NULL}] :
            \A p \in S \cap HeapAddrs : f[p] \in Vals} :
           S \in {T \in SUBSET DrawnWordAddrs(t) : Cardinality(T) <= MaxRefs}}

WordOf(f, p) == IF p \in DOMAIN f THEN f[p] ELSE 0

HeapInit ==
  \E t \in Tables, ow \in BOOLEAN :
    \E f \in DrawnWords(t) :
      /\ mem = [a \in MemAddrs |-> ByteOf(WordOf(f, a - (a % PtrSize)), a % PtrSize)]
      /\ regs = [r \in 0 .. (NumRegs - 1) |-> WordOf(f, RegBufBase + r * PtrSize)]
      /\ sp = StackTop - PtrSize
      /\ chunks = t
      /\ allocations = t
      /\ current_allocated = SumSizes(t, DOMAIN t)
      /\ max_heap_size = 0
      /\ verbose_logging = FALSE
      /\ overwrite_reclaimed_blocks = ow
      /\ gc_initialized = TRUE
      /\ stack_start = StackRegionBase
      /\ stack_length = StackRegionBytes
      /\ data_segment_start = DataSegBase
      /\ data_segment_length = DataSegBytes
      /\ exited = FALSE
      /\ last = NoCall
      /\ collector = Idle

\* the sizes requested of a drawn heap
HeapSizes == {1, PtrSize}

HeapNext ==
  /\ last.op = "none"
  /\ \/ GcCollect
     \/ \E size \in HeapSizes : GcAlloc(size)

HeapSpec == HeapInit /\ [][HeapNext]_vars

(***************************************************************************)
(* gc_collect step by step, on drawn heaps: one step per iteration of the  *)
(* loop of gc_collect_scan_block, per return from it, per root region and  *)
(* per entry the sweep loop visits.                                        *)
(***************************************************************************)
program == <<mem, regs, sp, chunks, allocations, current_allocated,
             max_heap_size, verbose_logging, overwrite_reclaimed_blocks,
             gc_initialized, stack_start, stack_length, data_segment_start,
             data_segment_length, exited>>

\* the steps at which gc_collect marks
Marking == {"regs", "stack", "data"}

\* an activation of gc_collect_scan_block(start, length, marked): end is
\* start + length and p the loop variable
Frame(start, length) == [start |-> start, p |-> start, end |-> start + length]

\* gc_collect with a scan of the whole stack region
RootFrame_whole_stack(st, at) ==
  CASE at = "regs" -> Frame(RegBufBase, PtrSize * RegBufWords)
    [] at = "stack" -> Frame(st.stack_start, st.stack_length)
    [] at = "data" -> Frame(st.data_segment_start, st.data_segment_length)

\* the call of gc_collect_scan_block that gc_collect makes at a step
RootFrame(st, at) ==
  CASE at = "regs" -> Frame(RegBufBase, PtrSize * RegBufWords)
    [] at = "stack" ->
         Frame(get_stack_pointer(st),
               (st.stack_start + st.stack_length - get_stack_pointer(st)) % WordMod)
    [] at = "data" -> Frame(st.data_segment_start, st.data_segment_length)

\* gc_collect with the scan of the static data before that of the stack
NextPhase_data_first(at) ==
  CASE at = "regs" -> "data"
    [] at = "data" -> "stack"
    [] at = "stack" -> "sweep"

\* gc_collect without the scan of the static data
NextPhase_skips_data(at) ==
  CASE at = "regs" -> "stack"
    [] at = "stack" -> "sweep"
    [] at = "data" -> "sweep"

\* the order of the statements of gc_collect
NextPhase(at) ==
  CASE at = "regs" -> "stack"
    [] at = "stack" -> "data"
    [] at = "data" -> "sweep"

\* gc_collect_scan_block without the test of the mark set
Enters_again(st, m, v) ==
  v \in DOMAIN st.allocations

\* is_valid_allocation != allocations->end() && has_visited == marked->end()
Enters(st, m, v) ==
  v \in DOMAIN st.allocations /\ v \notin DOMAIN m

\* p < end
LoopRuns(f) == f.p < f.end

\* gc_collect is called: a fresh mark set, the registers are saved and the
\* scan of the scratch buffer begins
CollectStart ==
  /\ ~exited
  /\ gc_initialized
  /\ collector.pc = "idle"
  /\ last.op = "none"
  /\ collector' = [Idle EXCEPT !.pc = "regs",
                               !.frames = <<RootFrame(Cur, "regs")>>]
  /\ last' = [NoCall EXCEPT !.op = "gc_collect", !.events = <<"gc_collect">>]
  /\ UNCHANGED program

\* one iteration of the loop of the innermost gc_collect_scan_block
ScanWord ==
  /\ collector.pc \in Marking
  /\ collector.frames # <<>>
  /\ LoopRuns(Head(collector.frames))
  /\ LET f == Head(collector.frames)
         v == WordAt(Cur, f.p)
     IN collector' =
          IF Enters(Cur, collector.marked, v)
          THEN [collector EXCEPT
                  !.marked = (v :> allocations[v]) @@ @,
                  !.frames = <<Frame(v, allocations[v])>> \o @]
          ELSE [collector EXCEPT !.frames[1].p = f.p + PtrSize]
  /\ UNCHANGED <<program, last>>

\* the loop of the innermost gc_collect_scan_block ends: it returns, and the
\* caller's loop goes on to its next word
ScanReturn ==
  /\ collector.pc \in Marking
  /\ collector.frames # <<>>
  /\ ~LoopRuns(Head(collector.frames))
  /\ LET rest == Tail(collector.frames)
     IN collector' =
          [collector EXCEPT
             !.frames = IF rest = <<>> THEN rest
                        ELSE [rest EXCEPT ![1].p = @ + PtrSize]]
  /\ UNCHANGED <<program, last>>

\* the scan of a root region has returned: gc_collect goes on to the next
\* region, or to the sweep
NextRegion ==
  /\ collector.pc \in Marking
  /\ collector.frames = <<>>
  /\ LET n == NextPhase(collector.pc)
     IN collector' =
          IF n \in Marking
          THEN [collector EXCEPT !.pc = n, !.frames = <<RootFrame(Cur, n)>>]
          ELSE [collector EXCEPT !.pc = n,
                                 !.pending = DOMAIN allocations,
                                 !.total_swept = 0]
  /\ UNCHANGED <<program, last>>

\* one iteration of the sweep loop, over the entries of the table in the
\* order the unordered_map gives them
SweepEntry ==
  /\ collector.pc = "sweep"
  /\ \E b \in collector.pending :
       IF b \notin DOMAIN collector.marked
       THEN LET s1 == IF overwrite_reclaimed_blocks THEN memset(Cur, {b}) ELSE Cur
                s2 == free(s1, {b})
            IN /\ mem' = s2.mem
               /\ chunks' = s2.chunks
               /\ collector' =
                    [collector EXCEPT
                       !.pending = @ \ {b},
                       !.total_swept = (@ + allocations[b]) % WordMod]
       ELSE /\ collector' = [collector EXCEPT !.pending = @ \ {b}]
            /\ UNCHANGED <<mem, chunks>>
  /\ UNCHANGED <<regs, sp, allocations, current_allocated, max_heap_size,
                 verbose_logging, overwrite_reclaimed_blocks, gc_initialized,
                 stack_start, stack_length, data_segment_start,
                 data_segment_length, exited, last>>

\* after the sweep loop: the total is reduced and the table replaced
SweepFinish ==
  /\ collector.pc = "sweep"
  /\ collector.pending = {}
  /\ current_allocated' = (current_allocated - collector.total_swept) % WordMod
  /\ allocations' = collector.marked
  /\ collector' = [collector EXCEPT !.pc = "done"]
  /\ UNCHANGED <<mem, regs, sp, chunks, max_heap_size, verbose_logging,
                 overwrite_reclaimed_blocks, gc_initialized, stack_start,
                 stack_length, data_segment_start, data_segment_length,
                 exited, last>>

\* the heaps a stepwise collection is run on: blocks of one byte and of one
\* word, addresses of blocks in at most MaxRefs places (the first register,
\* the stack region, in use or not, the data segment, the blocks), and the
\* stack pointer at any word of the stack region
CollectTables == {t \in Tables : \A b \in DOMAIN t : t[b] \in {1, PtrSize}}

CollectWordAddrs(t) ==
  RegWordAddrs \cup StackWordAddrs \cup DataWordAddrs \cup StoredWordAddrs(t)

CollectWords(t) ==
  UNION {[S -> Vals \ {NULL}] :
           S \in {T \in SUBSET CollectWordAddrs(t) : Cardinality(T) <= MaxRefs}}

CollectInit ==
  \E t \in CollectTables :
    \E f \in CollectWords(t) :
      /\ mem = [a \in MemAddrs |-> ByteOf(WordOf(f, a - (a % PtrSize)), a % PtrSize)]
      /\ regs = [r \in 0 .. (NumRegs - 1) |-> WordOf(f, RegBufBase + r * PtrSize)]
      /\ sp \in StackWordAddrs
      /\ chunks = t
      /\ allocations = t
      /\ current_allocated = SumSizes(t, DOMAIN t)
      /\ max_heap_size = 0
      /\ verbose_logging = FALSE
      /\ overwrite_reclaimed_blocks = TRUE
      /\ gc_initialized = TRUE
      /\ stack_start = StackRegionBase
      /\ stack_length = StackRegionBytes
      /\ data_segment_start = DataSegBase
      /\ data_segment_length = DataSegBytes
      /\ exited = FALSE
      /\ last = NoCall
      /\ collector = Idle

CollectNext ==
  \/ CollectStart
  \/ ScanWord
  \/ ScanReturn
  \/ NextRegion
  \/ SweepEntry
  \/ SweepFinish

CollectSpec == CollectInit /\ [][CollectNext]_vars

\* gc_collect runs on one thread, which takes its next step
CollectFair == CollectSpec /\ WF_vars(CollectNext)

\* the stepwise collection and gc_collect agree: when the marking is over
\* the mark set is that of Mark, and when the sweep is over the table and
\* the total are those of the Sweep of that mark set
StepsAgree ==
  /\ collector.pc = "sweep" /\ collector.pending = DOMAIN allocations
       => collector.marked = Mark(Cur)
  /\ collector.pc = "done"
       => /\ allocations = collector.marked
          /\ DOMAIN chunks = DOMAIN allocations
          /\ current_allocated = SumSizes(allocations, DOMAIN allocations)

(***************************************************************************)
(* Reachability, as the specification states it: a block is reachable when *)
(* its base address is the value of a word of a root region or of a word   *)
(* of a reachable block.  The words of a region (start, length) are the    *)
(* pointer-sized words at start, start + PtrSize, ... that lie inside      *)
(* [start, start + length).                                                *)
(***************************************************************************)
RegionWords(start, length) ==
  {start + k * PtrSize : k \in 0 .. ((length \div PtrSize) - 1)}

\* the tracked blocks whose base address a word of the region holds
Refs(st, start, length) ==
  {WordAt(st, p) : p \in RegionWords(start, length)} \cap DOMAIN st.allocations

\* register snapshot, stack in use, static data
RootRefs(st) ==
  Refs(st, RegBufBase, RegBufWords * PtrSize)
    \cup Refs(st, st.sp, StackTop - st.sp)
    \cup Refs(st, DataSegBase, DataSegBytes)

BlockRefs(st, b) == Refs(st, b, st.allocations[b])

RECURSIVE Closure(_, _)
Closure(st, S) ==
  LET T == S \cup UNION {BlockRefs(st, b) : b \in S}
  IN IF T = S THEN S ELSE Closure(st, T)

Reachable(st) == Closure(st, RootRefs(st))

\* the call just made ran a collection
Collected(l) == \E i \in 1 .. Len(l.events) : l.events[i] = "gc_collect"

\* the block at b was passed to free by the step: it is no longer live, or
\* the retry of gc_alloc was given its address again
ReleasedByStep(b) == b \notin DOMAIN chunks' \/ last'.ptr = b

\* the bytes of the block the step returned
ReturnedBytes == IF last'.ptr = NULL THEN {} ELSE Extent(last'.ptr, last'.size)

(***************************************************************************)
(* C1: a collection (gc_collect, or the one inside gc_alloc) does not      *)
(* release a block that is reachable when it starts, writes none of its    *)
(* bytes, and leaves its entry (base address, size) in the table.          *)
(***************************************************************************)
C1_ReachableSurvives ==
  [][Collected(last') =>
       \A b \in Reachable(Cur) :
         /\ ~ReleasedByStep(b)
         /\ \A a \in Extent(b, allocations[b]) : mem'[a] = mem[a]
         /\ b \in DOMAIN allocations'
         /\ allocations'[b] = allocations[b]]_vars

\* a collection has run with overwriting on: it released and overwrote a
\* block, and kept a block that only another block refers to
C1_Witness ==
  /\ Collected(last)
  /\ overwrite_reclaimed_blocks
  /\ \E a \in GranuleAddrs \ DOMAIN chunks : mem[a] = Sentinel
  /\ \E b \in DOMAIN allocations : b \in Reachable(Cur) /\ b \notin RootRefs(Cur)

(***************************************************************************)
(* C2, as the specification states it: a collection releases every tracked *)
(* block that is not reachable when it starts (its base address is in no   *)
(* word of a root region and in no word of a reachable block), removes it  *)
(* from the table, and with overwrite_reclaimed_blocks on leaves 0xab in   *)
(* each of its bytes (the retry of gc_alloc may then hand the bytes out    *)
(* again, zeroed).  The scanner also reads the word that starts inside a   *)
(* block and ends after it, and keeps the block whose address it finds     *)
(* there.                                                                  *)
(***************************************************************************)
C2_UnreachableReclaimed ==
  [][Collected(last') =>
       \A b \in DOMAIN allocations \ Reachable(Cur) :
         /\ ReleasedByStep(b)
         /\ b \in DOMAIN allocations' => last'.ptr = b
         /\ overwrite_reclaimed_blocks =>
              \A a \in Extent(b, allocations[b]) \ ReturnedBytes :
                mem'[a] = Sentinel]_vars

(***************************************************************************)
(* C3: the mark phase follows references through blocks to any depth: for  *)
(* blocks B1 .. Bn (n >= 2) with B1's address in a root word and each      *)
(* B(i+1)'s address in a word of B(i), every Bi is in the mark set with    *)
(* its size and is in the table after the collection; the blocks need not  *)
(* be distinct (cycles) and a block may have several referrers.            *)
(***************************************************************************)
Chains(st) ==
  LET roots == RootRefs(st)
      refs == [b \in DOMAIN st.allocations |-> BlockRefs(st, b)]
  IN {c \in UNION {[1 .. n -> DOMAIN st.allocations] : n \in 2 .. (NumSlots + 1)} :
        /\ c[1] \in roots
        /\ \A i \in 1 .. (Len(c) - 1) : c[i + 1] \in refs[c[i]]}

C3_ChainsMarked ==
  ~exited /\ gc_initialized =>
    LET marked == Mark(Cur)
        after == gc_collect(Cur, 0).allocations
    IN \A c \in Chains(Cur) : \A i \in 1 .. Len(c) :
         /\ c[i] \in DOMAIN marked
         /\ marked[c[i]] = allocations[c[i]]
         /\ c[i] \in DOMAIN after

\* after a collection: a chain of three blocks, the second and the third
\* referred to by their predecessor only, and a cycle of two blocks
OnlyReferrer(st, b, r) ==
  /\ b \notin RootRefs(st)
  /\ \A x \in DOMAIN st.allocations : b \in BlockRefs(st, x) => x = r

C3_Witness ==
  /\ Collected(last)
  /\ \E c \in Chains(Cur) :
       /\ Len(c) = 3
       /\ Cardinality({c[i] : i \in 1 .. 3}) = 3
       /\ OnlyReferrer(Cur, c[2], c[1])
       /\ OnlyReferrer(Cur, c[3], c[2])

\* after a collection: a cycle of two blocks, one of them with a second
\* referrer (the root) as well
C3_WitnessCycle ==
  /\ Collected(last)
  /\ \E c \in Chains(Cur) : Len(c) = 3 /\ c[1] = c[3] /\ c[1] # c[2]

(***************************************************************************)
(* C9, as the specification states it: a collection reclaims a tracked     *)
(* block that the words of the roots and of the reachable blocks point     *)
(* into only at interior addresses (base < address < base + size), never   *)
(* at its base address: it is released and its entry leaves the table.     *)
(* The scanner keeps such a block when it finds the base address in the    *)
(* word that starts inside a reachable block and ends after it.            *)
(***************************************************************************)
\* the values of the words the mark phase can read: the roots and the
\* reachable blocks
LiveWords(st) ==
  LET regions == {<<RegBufBase, RegBufWords * PtrSize>>,
                  <<st.sp, StackTop - st.sp>>,
                  <<DataSegBase, DataSegBytes>>}
                   \cup {<<b, st.allocations[b]>> : b \in Reachable(st)}
  IN UNION {{WordAt(st, p) : p \in RegionWords(r[1], r[2])} : r \in regions}

InteriorOnly(st) ==
  LET words == LiveWords(st)
  IN {b \in DOMAIN st.allocations :
        /\ b \notin words
        /\ \E v \in words : b < v /\ v < b + st.allocations[b]}

C9_InteriorPointersIgnored ==
  [][Collected(last') =>
       \A b \in InteriorOnly(Cur) :
         /\ ReleasedByStep(b)
         /\ b \in DOMAIN allocations' => last'.ptr = b]_vars

(***************************************************************************)
(* C10: verbose_logging and overwrite_reclaimed_blocks do not change what  *)
(* a collection keeps: from one table, heap and roots, collections run     *)
(* with any two settings of the flags end with the same table, the same    *)
(* current_allocated and the same live blocks, and with the same bytes     *)
(* everywhere outside the blocks they released.                            *)
(***************************************************************************)
Flags == BOOLEAN \X BOOLEAN

CollectWith(f) ==
  gc_collect([Cur EXCEPT !.verbose_logging = f[1],
                         !.overwrite_reclaimed_blocks = f[2]], 0)

C10_FlagsDoNotChangeOutcome ==
  ~exited /\ gc_initialized =>
    LET quiet == CollectWith(<<FALSE, FALSE>>)
        kept == MemAddrs \ UNION {Extent(b, allocations[b]) : b \in quiet.freed}
    IN /\ ~quiet.printed
       /\ \A f \in Flags \ {<<FALSE, FALSE>>} :
            LET run == CollectWith(f)
            IN /\ run.allocations = quiet.allocations
               /\ run.current_allocated = quiet.current_allocated
               /\ run.chunks = quiet.chunks
               /\ run.freed = quiet.freed
               /\ \A a \in kept : run.mem[a] = quiet.mem[a]
               /\ run.printed = f[1]

\* gc_collect has run with overwrite_reclaimed_blocks on: it kept a block and
\* released one, whose bytes differ from those a run with the flag off leaves
C10_Witness ==
  /\ last.op = "gc_collect"
  /\ overwrite_reclaimed_blocks
  /\ allocations # EmptyMap
  /\ current_allocated = SumSizes(allocations, DOMAIN allocations)
  /\ \E a \in GranuleAddrs \ DOMAIN chunks : mem[a] = Sentinel /\ mem[a + 1] # Sentinel

(***************************************************************************)
(* C8: the block gc_alloc returns holds zero in each of its size bytes,    *)
(* also when it lies where a released block was overwritten with 0xab.     *)
(***************************************************************************)
C8_ReturnedBlockIsZero ==
  last.op = "gc_alloc" /\ last.ptr # NULL =>
    \A a \in Extent(last.ptr, last.size) : mem[a] = 0

\* gc_alloc has collected and returned one byte at the base of a released
\* block that was overwritten: the byte after it still holds 0xab
C8_Witness ==
  /\ last.op = "gc_alloc"
  /\ Collected(last)
  /\ last.size = 1
  /\ last.ptr # NULL
  /\ mem[last.ptr] = 0
  /\ mem[last.ptr + 1] = Sentinel

(***************************************************************************)
(* C4: with a cap configured (max_heap_size > 0), a call that leaves the   *)
(* cap as it is and starts with current_allocated <= max_heap_size ends    *)
(* with current_allocated <= max_heap_size; the total is 0 when the first  *)
(* cap is set in a fresh process, so the bound holds in every state that   *)
(* allocations and collections reach under a cap.                          *)
(***************************************************************************)
C4_TotalWithinCap ==
  [][(/\ max_heap_size > 0
      /\ max_heap_size' = max_heap_size
      /\ current_allocated <= max_heap_size)
       => current_allocated' <= max_heap_size']_vars

\* the total has reached the cap, and gc_alloc has refused a request before
\* and after its collection
C4_Witness ==
  /\ max_heap_size > 0
  /\ current_allocated = max_heap_size
  /\ last.op = "gc_alloc"
  /\ last.events = <<"denied", "gc_collect", "denied">>

(***************************************************************************)
(* C5: under a cap C, a gc_alloc of s <= C bytes made when no root word    *)
(* and no block holds the address of a tracked block returns non-null,     *)
(* provided calloc does not fail (and gc_init did not end the process).    *)
(***************************************************************************)
C5_ChurnSucceeds ==
  [][(/\ last'.op = "gc_alloc"
      /\ ~exited'
      /\ max_heap_size > 0
      /\ last'.size <= max_heap_size
      /\ Reachable(Cur) = {}
      /\ \A i \in 1 .. Len(last'.events) : last'.events[i] # "calloc_null")
       => last'.ptr # NULL]_vars

\* a request within the cap was refused, the collection released every
\* block, and the second attempt succeeded
C5_Witness ==
  /\ last.op = "gc_alloc"
  /\ last.events = <<"denied", "gc_collect", "calloc_ok">>
  /\ last.size <= max_heap_size
  /\ last.ptr # NULL
  /\ DOMAIN allocations = {last.ptr}
  /\ RootRefs(Cur) = {}

(***************************************************************************)
(* C6: gc_alloc makes one attempt; when it succeeds the call returns the   *)
(* block and runs no collection; when it fails the call runs exactly one   *)
(* collection and exactly one more attempt, whose result it returns.       *)
(***************************************************************************)
Failed == {"denied", "calloc_null"}

C6_OneCollectionOneRetry ==
  last.op = "gc_alloc" /\ ~exited =>
    \/ last.events = <<"calloc_ok">> /\ last.ptr # NULL
    \/ /\ Len(last.events) = 3
       /\ last.events[1] \in Failed
       /\ last.events[2] = "gc_collect"
       /\ \/ last.events[3] = "calloc_ok" /\ last.ptr # NULL
          \/ last.events[3] \in Failed /\ last.ptr = NULL

\* both attempts of a call have failed, the first one in calloc
C6_Witness ==
  /\ last.op = "gc_alloc"
  /\ Len(last.events) = 3
  /\ last.events[1] = "calloc_null"
  /\ last.events[3] \in Failed
  /\ last.ptr = NULL

(***************************************************************************)
(* C7, as the specification states it: a gc_alloc whose request would      *)
(* exceed the cap fails at once: calloc is not called and no collection is *)
(* triggered.                                                              *)
(***************************************************************************)
C7_DeniedFailsAtOnce ==
  (/\ last.op = "gc_alloc"
   /\ last.events # <<>>
   /\ last.events[1] = "denied")
    => last.ptr = NULL /\ last.events = <<"denied">>

(***************************************************************************)
(* C7, as the code has it: when max_heap_size > 0 and current_allocated +  *)
(* size (in size_t arithmetic) exceeds it, the first attempt of gc_alloc   *)
(* fails without a call of calloc; gc_alloc then runs one collection and   *)
(* makes a second attempt, which is refused again exactly when the total   *)
(* left by the collection plus size still exceeds the cap, and the call    *)
(* returns null exactly when the second attempt fails.                     *)
(***************************************************************************)
C7_DeniedThenCollectAndRetry ==
  [][(/\ last'.op = "gc_alloc"
      /\ ~exited'
      /\ max_heap_size > 0
      /\ (current_allocated + last'.size) % WordMod > max_heap_size)
       => LET e == last'.events
              mid == IF last'.ptr = NULL THEN current_allocated'
                     ELSE (current_allocated' - last'.size) % WordMod
          IN /\ Len(e) = 3
             /\ e[1] = "denied"
             /\ e[2] = "gc_collect"
             /\ e[3] = "denied" <=> (mid + last'.size) % WordMod > max_heap_size
             /\ last'.ptr = NULL <=> e[3] \in Failed]_vars

\* a refused request has been served by the second attempt, and the block
\* is in the table
C7_Witness ==
  /\ last.op = "gc_alloc"
  /\ max_heap_size > 0
  /\ last.events = <<"denied", "gc_collect", "calloc_ok">>
  /\ last.ptr \in DOMAIN allocations
  /\ current_allocated > last.size



(***************************************************************************)
(* The mark phase, step by step.                                           *)
(***************************************************************************)
\* the iterations the loop of an activation has still to make
LoopLeft(f) == IF LoopRuns(f) THEN (f.end - f.p + PtrSize - 1) \div PtrSize ELSE 0

RECURSIVE FramesLeft(_)
FramesLeft(fs) ==
  IF fs = <<>> THEN 0 ELSE LoopLeft(Head(fs)) + 1 + FramesLeft(Tail(fs))

\* the root regions gc_collect has still to leave
RegionsLeft ==
  CASE collector.pc = "regs" -> 3
    [] collector.pc = "stack" -> 2
    [] collector.pc = "data" -> 1
    [] OTHER -> 0

\* a bound on the steps the marking has still to take: every root region
\* not yet begun and every tracked block not yet marked count for more
\* than the steps of their whole scan
MarkRank ==
  RegionsLeft * (RegBufWords + 2)
  + Cardinality(DOMAIN allocations \ DOMAIN collector.marked) * (PtrSize + 2)
  + FramesLeft(collector.frames)

\* a step of the marking that enters a tracked block
EntersBlock ==
  /\ collector.pc \in Marking
  /\ collector.frames # <<>>
  /\ Len(collector'.frames) = Len(collector.frames) + 1

\* C11: the mark phase of a collection terminates, whatever the table, the
\* roots and the blocks hold (blocks that point to themselves and cycles
\* of blocks included): every step of the marking lowers a bound that
\* never falls below zero, the marking does reach the sweep, and a step
\* enters a tracked block only if the block is not in the mark set, which
\* never loses a block, so that no block is entered twice.
C11_MarkTerminates ==
  /\ [][collector.pc \in Marking =>
          /\ MarkRank' < MarkRank
          /\ MarkRank' >= 0
          /\ DOMAIN collector.marked \subseteq DOMAIN collector'.marked
          /\ EntersBlock =>
                /\ Head(collector'.frames).start \notin DOMAIN collector.marked
                /\ Head(collector'.frames).start \in DOMAIN collector'.marked
                /\ Head(collector'.frames).end =
                     Head(collector'.frames).start
                       + allocations[Head(collector'.frames).start]]_vars
  /\ (collector.pc \in Marking ~> collector.pc = "sweep")

\* the marking is over on a heap with a cycle of two blocks, both marked,
\* and on one with a block that points to itself
C11_Witness ==
  /\ collector.pc = "sweep"
  /\ \E a \in DOMAIN collector.marked :
       \E b \in DOMAIN collector.marked \ {a} :
         /\ WordAt(Cur, a) = b
         /\ WordAt(Cur, b) = a

(***************************************************************************)
(* The order of the steps of a collection.                                 *)
(***************************************************************************)
\* the steps of gc_collect, in the order the claim gives them
PhaseOrder == <<"idle", "regs", "stack", "data", "sweep", "done">>

PhaseIndex(at) == CHOOSE i \in DOMAIN PhaseOrder : PhaseOrder[i] = at

\* the region scanned at a step is the one the claim names
ScansItsRegion ==
  collector.pc \in Marking /\ collector.frames # <<>> =>
    LET root == collector.frames[Len(collector.frames)]
    IN CASE collector.pc = "regs" ->
              root.start = RegBufBase /\ root.end = RegBufBase + PtrSize * RegBufWords
         [] collector.pc = "stack" -> root.start = sp /\ root.end = StackTop
         [] collector.pc = "data" ->
              root.start = DataSegBase /\ root.end = DataSegBase + DataSegBytes

\* C12: the steps of one collection are ordered: a fresh empty mark set,
\* then the scan of the register snapshot, then that of the stack in use,
\* then that of the static data, each left only when its scan has run to
\* the end of the region with no nested scan open; blocks are released,
\* the total reduced and the table replaced only after the three scans,
\* and the mark set no longer changes once the sweep has begun.
C12_StepsOrdered ==
  [][/\ collector'.pc # collector.pc =>
          PhaseIndex(collector'.pc) = PhaseIndex(collector.pc) + 1
     /\ collector.pc = "idle" /\ collector'.pc = "regs" =>
          collector'.marked = EmptyMap
     /\ ScansItsRegion'
     /\ collector.pc \in Marking /\ collector'.pc # collector.pc =>
          collector.frames = <<>>
     /\ collector.pc \in Marking /\ collector.frames # <<>>
           /\ collector'.frames = <<>> =>
          ~LoopRuns(Head(collector.frames))
     /\ collector.pc # "sweep" =>
          /\ chunks' = chunks
          /\ mem' = mem
          /\ allocations' = allocations
          /\ current_allocated' = current_allocated
     /\ allocations' # allocations =>
          /\ collector.pending = {}
          /\ allocations' = collector.marked
     /\ collector.pc \notin Marking /\ collector.pc # "idle" =>
          collector'.marked = collector.marked]_vars

\* in the middle of a sweep: one block released, one entry still to visit,
\* and a marked block that was found through another block
C12_Witness ==
  /\ collector.pc = "sweep"
  /\ DOMAIN chunks # DOMAIN allocations
  /\ collector.pending # {}
  /\ \E b \in DOMAIN collector.marked :
       \E a \in DOMAIN collector.marked \ {b} : WordAt(Cur, a) = b

(***************************************************************************)
(* The allocation table over sequences of calls.                           *)
(***************************************************************************)
\* C13: over any sequence of calls, an entry that is new in the table, or
\* has a new size, is the address a gc_alloc has just returned, not null,
\* with the size that was asked for, and every gc_alloc that returns an
\* address leaves that entry; an entry that has left the table was released
\* by the sweep of a collection; so a collection adds no entry and changes
\* no size, and the table after a gc_collect is a part of the table before.
C13_TableChanges ==
  [][/\ \A b \in DOMAIN allocations' :
          b \notin DOMAIN allocations \/ allocations'[b] # allocations[b] =>
            /\ last'.op = "gc_alloc"
            /\ last'.ptr = b
            /\ b # NULL
            /\ allocations'[b] = last'.size
     /\ last'.op = "gc_alloc" /\ last'.ptr # NULL /\ ~exited' =>
          /\ last'.ptr \in DOMAIN allocations'
          /\ allocations'[last'.ptr] = last'.size
     /\ \A b \in DOMAIN allocations :
          b \notin DOMAIN allocations' =>
            Collected(last') /\ ReleasedByStep(b)
     /\ last'.op = "gc_collect" =>
          /\ DOMAIN allocations' \subseteq DOMAIN allocations
          /\ \A b \in DOMAIN allocations' : allocations'[b] = allocations[b]]_vars

\* a gc_alloc found the arena full, collected, and was given an address on
\* its second attempt: its entry is in the table beside one that survived,
\* and at least one entry has left
C13_Witness ==
  /\ last.op = "gc_alloc"
  /\ last.events = <<"calloc_null", "gc_collect", "calloc_ok">>
  /\ last.size = PtrSize
  /\ last.ptr \in DOMAIN allocations
  /\ allocations[last.ptr] = PtrSize
  /\ Cardinality(DOMAIN allocations) = 2

\* C14: a gc_alloc that returns null made two attempts with one collection
\* between them and none after; it put no entry in the table and did not
\* raise the total; and the state it leaves is the state a gc_collect
\* called in its place would have left.
C14_NullLeavesCollectionOnly ==
  [][last'.op = "gc_alloc" /\ last'.ptr = NULL /\ ~exited' =>
       /\ Len(last'.events) = 3
       /\ last'.events[1] \in Failed
       /\ last'.events[2] = "gc_collect"
       /\ last'.events[3] \in Failed
       /\ DOMAIN allocations' \subseteq DOMAIN allocations
       /\ current_allocated' <= current_allocated
       /\ \E kr \in KernResults(Cur) :
            LET g == gc_collect(Cur, kr)
            IN /\ mem' = g.mem
               /\ regs' = g.regs
               /\ sp' = g.sp
               /\ chunks' = g.chunks
               /\ allocations' = g.allocations
               /\ current_allocated' = g.current_allocated
               /\ max_heap_size' = g.max_heap_size
               /\ verbose_logging' = g.verbose_logging
               /\ overwrite_reclaimed_blocks' = g.overwrite_reclaimed_blocks
               /\ gc_initialized' = g.gc_initialized
               /\ stack_start' = g.stack_start
               /\ stack_length' = g.stack_length
               /\ data_segment_start' = g.data_segment_start
               /\ data_segment_length' = g.data_segment_length]_vars

\* a gc_alloc was refused under the cap before and after its collection and
\* returned null, with blocks still in the table
C14_Witness ==
  /\ last.op = "gc_alloc"
  /\ last.ptr = NULL
  /\ ~exited
  /\ last.events = <<"denied", "gc_collect", "denied">>
  /\ allocations # EmptyMap
  /\ current_allocated > 0

\* C15: after every completed gc_alloc and gc_collect (and so in every state
\* between two calls) the total current_allocated is the sum of the sizes
\* of the entries of the table.
C15_TotalIsSumOfSizes ==
  ~exited => current_allocated = SumSizes(allocations, DOMAIN allocations)

\* a gc_alloc was refused under the cap, its collection released blocks and
\* kept one, and its second attempt added a block
C15_Witness ==
  /\ last.op = "gc_alloc"
  /\ last.events = <<"denied", "gc_collect", "calloc_ok">>
  /\ Cardinality(DOMAIN allocations) = 2
  /\ current_allocated = 2 * PtrSize

\* C16: after every completed call the keys of the table are exactly the
\* blocks obtained from calloc and not yet passed to free, with their
\* sizes, and the blocks a collection would pass to free now are all of
\* them still unreleased: no block is released twice, no entry is for
\* released memory and no unreleased block is missing from the table, also
\* when calloc hands out again an address that was released.
C16_TableIsLiveBlocks ==
  ~exited =>
    /\ allocations = chunks
    /\ \A kr \in KernResults(Cur) :
         LET g == gc_collect(Cur, kr)
         IN /\ g.freed \subseteq DOMAIN chunks
            /\ g.exited \/ g.allocations = g.chunks

\* calloc had no room for two words; the collection inside gc_alloc
\* released blocks, and the second attempt was given a released address
C16_Witness ==
  /\ last.op = "gc_alloc"
  /\ last.events = <<"calloc_null", "gc_collect", "calloc_ok">>
  /\ last.size = 2 * PtrSize
  /\ last.ptr \in DOMAIN chunks
  /\ chunks[last.ptr] = 2 * PtrSize
  /\ Cardinality(DOMAIN chunks) = 2

\* C17: a gc_collect called right after a gc_collect, with no allocation
\* and no store to a root or a block between the two, releases no block and
\* leaves the table, the total, the live blocks and the memory as the
\* first left them.
C17_SecondCollectChangesNothing ==
  last.op = "gc_collect" /\ ~exited =>
    LET again == gc_collect(Cur, 0)
    IN /\ again.freed = {}
       /\ again.allocations = allocations
       /\ again.current_allocated = current_allocated
       /\ again.chunks = chunks
       /\ again.mem = mem

\* a gc_collect has released a block of a full arena and kept another
C17_Witness ==
  /\ last.op = "gc_collect"
  /\ allocations # EmptyMap
  /\ \E a \in GranuleAddrs : FreeAt(chunks, a, 1)
  /\ \E b \in DOMAIN allocations : \E w \in RootWordAddrs : WordAt(Cur, w) = b

(***************************************************************************)
(* The words the scanner reads.                                            *)
(***************************************************************************)
\* the bytes of the word the innermost scan is about to read
NextRead == Extent(Head(collector.frames).p, PtrSize)

\* the region the innermost scan was given
ScannedRegion ==
  Extent(Head(collector.frames).start,
         Head(collector.frames).end - Head(collector.frames).start)

\* C18: every word a scan reads lies entirely inside the region
\* (start, length) the scan was given, also when the region is a block
\* whose size is not a multiple of the pointer size.
C18_ReadsInsideRegion ==
  collector.pc \in Marking /\ collector.frames # <<>>
    /\ LoopRuns(Head(collector.frames)) =>
      NextRead \subseteq ScannedRegion

(***************************************************************************)
(* The cap check of internal_alloc.                                        *)
(***************************************************************************)
\* the total the collection inside the gc_alloc just made has left
TotalAtRetry ==
  IF last'.ptr = NULL THEN current_allocated' ELSE current_allocated' - last'.size

\* C19: with a cap set, an attempt of gc_alloc is refused without a call of
\* calloc exactly when the sum current_allocated + size, taken in the
\* integers and not modulo the word range, is greater than the cap, and is
\* passed to calloc exactly when that sum is at most the cap.
C19_CapCheckExact ==
  [][last'.op = "gc_alloc" /\ ~exited' /\ max_heap_size > 0 =>
       /\ last'.events[1] = "denied"
            <=> current_allocated + last'.size > max_heap_size
       /\ Len(last'.events) = 3 =>
            (last'.events[3] = "denied"
               <=> TotalAtRetry + last'.size > max_heap_size)]_vars

(***************************************************************************)
(* The stack as a root.                                                    *)
(***************************************************************************)
\* the words of the stack region below the stack pointer, and from it up
UnusedStackWords == {w \in StackWordAddrs : w < sp}

InUseStackWords == {w \in StackWordAddrs : w >= sp}

\* every other aligned word of the memory and of the register snapshot
WordsElsewhere ==
  {a \in HeapAddrs \cup DataAddrs \cup RegBufAddrs : a % PtrSize = 0}
    \cup InUseStackWords

\* the marking is over and the sweep has not begun
MarkingOver == collector.pc = "sweep" /\ collector.pending = DOMAIN allocations

\* the state with the unused part of the stack region cleared
ClearUnused(st) ==
  [st EXCEPT !.mem = [a \in DOMAIN @ |->
                        IF a \in StackAddrs /\ a < st.sp THEN 0 ELSE @[a]]]

\* C20: only the part of the stack in use is a root.  The scan of the stack
\* is given exactly [stack pointer, top of the region) and reads the words
\* of that extent only; when the marking is over, the block of every
\* tracked address held by a word from the stack pointer up to the top is
\* marked; a block whose address is held by words below the stack pointer
\* and by no other word is not marked, and is released by the end of the
\* collection; and the mark set is the one the same memory gives with the
\* part below the stack pointer cleared.
C20_OnlyStackInUseIsRoot ==
  /\ collector.pc = "stack" /\ collector.frames # <<>> =>
       LET root == collector.frames[Len(collector.frames)]
       IN /\ root.start = sp
          /\ root.end = StackTop
          /\ root.p \in InUseStackWords \cup {StackTop}
  /\ MarkingOver =>
       /\ \A w \in InUseStackWords :
            WordAt(Cur, w) \in DOMAIN allocations =>
              WordAt(Cur, w) \in DOMAIN collector.marked
       /\ \A b \in DOMAIN allocations :
            /\ \E w \in UnusedStackWords : WordAt(Cur, w) = b
            /\ \A w \in WordsElsewhere : WordAt(Cur, w) # b
            => b \notin DOMAIN collector.marked
       /\ collector.marked = Mark(ClearUnused(Cur))
  /\ collector.pc = "done" =>
       \A w \in UnusedStackWords :
         (\A v \in WordsElsewhere : WordAt(Cur, v) # WordAt(Cur, w)) =>
           WordAt(Cur, w) \notin DOMAIN chunks

\* the marking is over: a block whose address is below the stack pointer
\* only is not marked, and a block whose address is in the stack in use is
C20_Witness ==
  /\ MarkingOver
  /\ \E b \in DOMAIN allocations :
       /\ \E w \in UnusedStackWords : WordAt(Cur, w) = b
       /\ \A w \in WordsElsewhere : WordAt(Cur, w) # b
       /\ b \notin DOMAIN collector.marked
  /\ \E w \in InUseStackWords : WordAt(Cur, w) \in DOMAIN collector.marked

(***************************************************************************)
(* Initialization.                                                         *)
(***************************************************************************)
\* the step is a call of gc_alloc or gc_collect
CallsCollector == last'.op \in {"gc_alloc", "gc_collect"}

\* the step is a call of one of the gc_debug_ functions that changes a setting
CallsSetter ==
  \/ max_heap_size' # max_heap_size
  \/ verbose_logging' # verbose_logging
  \/ overwrite_reclaimed_blocks' # overwrite_reclaimed_blocks

\* what gc_init discovers and creates
Discovered ==
  <<gc_initialized, stack_start, stack_length, data_segment_start,
    data_segment_length>>

\* once gc_init has run, no step runs it again: what it discovered stays,
\* the process does not exit, and the table loses entries only in a step
\* that collects
InitNeverRerun ==
  gc_initialized /\ ~exited =>
    /\ Discovered' = Discovered
    /\ ~exited'
    /\ Collected(last') \/ DOMAIN allocations \subseteq DOMAIN allocations'

\* C21 as stated: the discovery of the roots and the creation of the table
\* happen on the first public operation invoked, whichever it is, and
\* never again.
C21_InitOnFirstOperation ==
  [][/\ ~gc_initialized /\ (CallsCollector \/ CallsSetter) => gc_initialized'
     /\ InitNeverRerun]_vars

\* C21, amended: the discovery of the roots and the creation of the table
\* happen on the first call of gc_alloc or gc_collect; a gc_debug_ call
\* made before that changes its setting only and initializes nothing; and
\* once they have happened no call runs them again, so that the table is
\* never emptied except by the sweep of a collection.
C21_InitOnFirstAllocOrCollect ==
  [][/\ ~gc_initialized /\ CallsCollector =>
          /\ gc_initialized'
          /\ exited' \/ /\ stack_start' = StackRegionBase
                         /\ stack_length' = StackRegionBytes
                         /\ data_segment_start' = DataSegBase
                         /\ data_segment_length' = DataSegBytes
     /\ ~gc_initialized /\ ~CallsCollector =>
          /\ Discovered' = Discovered
          /\ allocations' = allocations
     /\ InitNeverRerun]_vars

\* two gc_debug_ calls have been made and nothing is initialized
C21_Witness ==
  /\ ~gc_initialized
  /\ max_heap_size > 0
  /\ overwrite_reclaimed_blocks
  /\ stack_length = 0
  /\ allocations = EmptyMap

(***************************************************************************)
(* A collection with a second thread that stores into the roots.  The     *)
(* collector takes no lock and stops no thread, so a store of another      *)
(* thread may fall between any two of its steps.                           *)
(***************************************************************************)
\* the root words in memory: the stack in use and the static data
RootWordsInUse == InUseStackWords \cup DataWordAddrs

\* the addresses the root words hold
Held == {WordAt(Cur, w) : w \in RootWordsInUse} \ {NULL}

\* the stores the second thread has made since the collection began
Stores == Cardinality({i \in 1 .. Len(last.events) : last.events[i] = "store"})

\* the second thread stores a word into a root word while the collection
\* is marking: it copies an address a root word holds, or clears a word
\* whose address another root word holds too, so that the root words hold
\* the same addresses before and after the store
ConcurrentStore ==
  /\ collector.pc \in Marking
  /\ Stores < MaxStores
  /\ \E w \in RootWordsInUse, v \in Vals :
       /\ WordAt(Cur, w) # v
       /\ mem' = StoreWord(mem, w, v)
       /\ Held = {WordAt([Cur EXCEPT !.mem = mem'], x) : x \in RootWordsInUse} \ {NULL}
  /\ last' = [last EXCEPT !.events = Append(@, "store")]
  /\ UNCHANGED <<regs, sp, chunks, allocations, current_allocated,
                 max_heap_size, verbose_logging, overwrite_reclaimed_blocks,
                 gc_initialized, stack_start, stack_length, data_segment_start,
                 data_segment_length, exited, collector>>

\* heaps of blocks of one byte and of one word, the whole stack region in
\* use, and addresses of blocks in words of the stack and of the static data
RaceWords ==
  UNION {[S -> Vals \ {NULL}] : S \in SUBSET (StackWordAddrs \cup DataWordAddrs)}

RaceInit ==
  \E t \in CollectTables :
    \E f \in RaceWords :
      /\ mem = [a \in MemAddrs |-> ByteOf(WordOf(f, a - (a % PtrSize)), a % PtrSize)]
      /\ regs = [r \in 0 .. (NumRegs - 1) |-> 0]
      /\ sp = StackRegionBase
      /\ chunks = t
      /\ allocations = t
      /\ current_allocated = SumSizes(t, DOMAIN t)
      /\ max_heap_size = 0
      /\ verbose_logging = FALSE
      /\ overwrite_reclaimed_blocks = TRUE
      /\ gc_initialized = TRUE
      /\ stack_start = StackRegionBase
      /\ stack_length = StackRegionBytes
      /\ data_segment_start = DataSegBase
      /\ data_segment_length = DataSegBytes
      /\ exited = FALSE
      /\ last = NoCall
      /\ collector = Idle

RaceNext ==
  \/ CollectNext
  \/ ConcurrentStore

RaceSpec == RaceInit /\ [][RaceNext]_vars

\* C22: the collector needs to be the only thread.  With a second thread
\* that stores into root words while the collection marks, the root words
\* holding the same addresses at every step, a collection can end with a
\* block that a root word holds absent from the mark set and released;
\* a collection during which no such store was made never ends so: every
\* block a root word holds is then in the mark set, in the table and live.
C22_SingleThreadNeeded ==
  /\ [][Held' = Held]_vars
  /\ [](collector.pc = "done" /\ Stores = 0 =>
          /\ Held \subseteq DOMAIN collector.marked
          /\ Held \subseteq DOMAIN allocations
          /\ Held \subseteq DOMAIN chunks)

\* the interleaving: stores were made during the marking, and the
\* collection has ended with a block that a root word holds (and held at
\* every step) absent from the mark set and released
C22_Witness ==
  /\ collector.pc = "done"
  /\ Stores > 0
  /\ \E b \in Held :
       /\ b \notin DOMAIN collector.marked
       /\ b \notin DOMAIN chunks
       /\ b \notin DOMAIN allocations

====
